---- MODULE Spec2Model ----
(***************************************************************************)
(* Forward-mode automatic differentiation over scalar dual numbers        *)
(* (jerelbn/autodiff).  Two variants of the same object are modelled:      *)
(*   - the eager Dual<T>   (dual.h):  every operator returns a new Dual;   *)
(*   - the lazy  Dual2<T>  (dual2.h): operators build expression nodes     *)
(*     that hold references to their operands and recompute v()/dv() on    *)
(*     every query; Dual2::operator= materializes a node.                  *)
(* The numeric type T is instantiated by a whole-number type: + - * are    *)
(* exact, / truncates toward zero, the elementary functions round toward   *)
(* zero, and everything outside the representable range (or undefined,     *)
(* such as x / 0) is the single absorbing value NonFinite.                 *)
(***************************************************************************)
EXTENDS Integers, Sequences, FiniteSets, TLC

\* ------------------------------------------------------------------ bounds
\* Largest magnitude T represents; anything beyond is NonFinite.
MaxAbs == 10000
\* Largest number of operator nodes in one expression.
MaxOps == 2

\* The client's variables, and the scalar exponents it passes to pow.
Vars == {"x", "y"}
Exponents == {2, 3}

\* ------------------------------------------------------- the numeric type T
NonFinite == 0 - (MaxAbs + MaxAbs)
Finite(a) == a # NonFinite
Norm(n) == IF n > MaxAbs \/ n < 0 - MaxAbs THEN NonFinite ELSE n
Mag(a) == IF a < 0 THEN 0 - a ELSE a

AddT(a, b) == IF Finite(a) /\ Finite(b) THEN Norm(a + b) ELSE NonFinite
SubT(a, b) == IF Finite(a) /\ Finite(b) THEN Norm(a - b) ELSE NonFinite
MulT(a, b) == IF Finite(a) /\ Finite(b) THEN Norm(a * b) ELSE NonFinite
NegT(a) == IF Finite(a) THEN 0 - a ELSE NonFinite
DivT(a, b) ==
    IF Finite(a) /\ Finite(b) /\ b # 0
    THEN IF (a < 0) = (b < 0) THEN Mag(a) \div Mag(b) ELSE 0 - (Mag(a) \div Mag(b))
    ELSE NonFinite
AbsT(a) == IF Finite(a) THEN Mag(a) ELSE NonFinite

RECURSIVE PowAcc(_, _, _)
PowAcc(v, e, acc) ==
    IF e = 0 \/ ~Finite(acc) THEN acc ELSE PowAcc(v, e - 1, MulT(acc, v))
Parity(v, e) == IF e % 2 = 0 THEN 1 ELSE v
PowT(v, e) ==
    IF ~(Finite(v) /\ Finite(e)) THEN NonFinite
    ELSE IF e = 0 THEN 1
    ELSE IF v = 0 THEN (IF e > 0 THEN 0 ELSE NonFinite)
    ELSE IF v = 1 \/ v = 0 - 1 THEN Parity(v, Mag(e))
    ELSE IF e > 0 THEN PowAcc(v, e, 1)
    ELSE 0

ExpTable == <<1, 2, 7, 20, 54, 148, 403, 1096, 2980, 8103>>
SinT(a) == IF Finite(a) THEN 0 ELSE NonFinite
CosT(a) == IF Finite(a) THEN (IF a = 0 THEN 1 ELSE 0) ELSE NonFinite
ExpT(a) ==
    IF ~Finite(a) THEN NonFinite
    ELSE IF a < 0 THEN 0
    ELSE IF a < Len(ExpTable) THEN Norm(ExpTable[a + 1])
    ELSE NonFinite
LogT(a) ==
    IF ~Finite(a) \/ a <= 0 THEN NonFinite
    ELSE Cardinality({k \in 2..Len(ExpTable) : ExpTable[k] < a})

\* ------------------------------------------------------------ dual numbers
MkDual(v, d) == [value |-> v, derivative |-> d]

\* Dual<T> constructors (eager variant).
DualCtor0 == MkDual(0, 0)
DualCtor1(_value) == MkDual(_value, 0)
DualCtor2(_value, _derivative) == MkDual(_value, _derivative)
DualCopy(other) == MkDual(other.value, other.derivative)

\* Dual2<T> constructors (lazy variant's concrete storage).
Dual2Ctor0 == MkDual(0, 0)
\* A value-only constructor that seeds the derivative with 1.
Dual2Ctor1Seeded(_value) == MkDual(_value, 1)
Dual2Ctor1(_value) == MkDual(_value, 0)
Dual2Ctor2(_value, _derivative) == MkDual(_value, _derivative)
Dual2Copy(other) == MkDual(other.value, other.derivative)

\* --------------------------------------------- eager operators (class Dual)
DualAdd(a, b) == MkDual(AddT(a.value, b.value), AddT(a.derivative, b.derivative))
DualSub(a, b) == MkDual(SubT(a.value, b.value), SubT(a.derivative, b.derivative))
DualMul(a, b) ==
    MkDual(MulT(a.value, b.value),
           AddT(MulT(a.value, b.derivative), MulT(a.derivative, b.value)))
DualDiv(a, b) ==
    MkDual(DivT(a.value, b.value),
           DivT(SubT(MulT(a.derivative, b.value), MulT(a.value, b.derivative)),
                MulT(b.value, b.value)))
DualSin(x1) == MkDual(SinT(x1.value), MulT(x1.derivative, CosT(x1.value)))
DualCos(x1) == MkDual(CosT(x1.value), MulT(NegT(x1.derivative), SinT(x1.value)))
DualExp(x1) == MkDual(ExpT(x1.value), MulT(x1.derivative, ExpT(x1.value)))
DualLog(x1) == MkDual(LogT(x1.value), DivT(x1.derivative, x1.value))
DualPow(x1, k) ==
    MkDual(PowT(x1.value, k),
           MulT(MulT(k, PowT(x1.value, SubT(k, 1))), x1.derivative))
DualAbs(x1) ==
    MkDual(AbsT(x1.value), DivT(MulT(x1.derivative, x1.value), AbsT(x1.value)))

\* ------------------------------------- lazy expression nodes (dual2.h)
\* A node holds references: a concrete operand is named, never copied.
None == [op |-> "None"]
Leaf(a) == [op |-> "Dual2", name |-> a]
Binary(o, l, r) == [op |-> o, l |-> l, r |-> r]
Unary(o, r) == [op |-> o, r |-> r]
PowerNode(r, k) == [op |-> "Power", r |-> r, k |-> k]

BinaryOps == {"Add", "Subtract", "Multiply", "Divide"}
UnaryOps == {"Sine", "Cosine", "Exponential", "Logarithm", "Absolute"}

RECURSIVE V(_, _)
RECURSIVE DV(_, _)

Dual2V(e, s) == s[e.name].value
Dual2Dv(e, s) == s[e.name].derivative

AddV(e, s) == AddT(V(e.l, s), V(e.r, s))
AddDv(e, s) == AddT(DV(e.l, s), DV(e.r, s))
SubtractV(e, s) == SubT(V(e.l, s), V(e.r, s))
SubtractDv(e, s) == SubT(DV(e.l, s), DV(e.r, s))
MultiplyV(e, s) == MulT(V(e.l, s), V(e.r, s))
\* A product rule without the factor of the right operand's value.
MultiplyDvNoCross(e, s) == AddT(MulT(V(e.l, s), DV(e.r, s)), DV(e.l, s))
MultiplyDv(e, s) == AddT(MulT(V(e.l, s), DV(e.r, s)), MulT(DV(e.l, s), V(e.r, s)))
DivideV(e, s) == DivT(V(e.l, s), V(e.r, s))
\* A quotient rule with the sign of the product rule.
DivideDvPlus(e, s) ==
    DivT(AddT(MulT(DV(e.l, s), V(e.r, s)), MulT(V(e.l, s), DV(e.r, s))),
         MulT(V(e.r, s), V(e.r, s)))
DivideDv(e, s) ==
    DivT(SubT(MulT(DV(e.l, s), V(e.r, s)), MulT(V(e.l, s), DV(e.r, s))),
         MulT(V(e.r, s), V(e.r, s)))
SineV(e, s) == SinT(V(e.r, s))
SineDv(e, s) == MulT(DV(e.r, s), CosT(V(e.r, s)))
CosineV(e, s) == CosT(V(e.r, s))
CosineDv(e, s) == MulT(NegT(DV(e.r, s)), SinT(V(e.r, s)))
ExponentialV(e, s) == ExpT(V(e.r, s))
ExponentialDv(e, s) == MulT(DV(e.r, s), ExpT(V(e.r, s)))
LogarithmV(e, s) == LogT(V(e.r, s))
LogarithmDv(e, s) == DivT(DV(e.r, s), V(e.r, s))
PowerV(e, s) == PowT(V(e.r, s), e.k)
\* k * pow(r.v(), k - value_type(1) * r.dv()): the product binds inside the
\* exponent, as the source is written.
PowerDv(e, s) == MulT(e.k, PowT(V(e.r, s), SubT(e.k, MulT(1, DV(e.r, s)))))
AbsoluteV(e, s) == AbsT(V(e.r, s))
AbsoluteDv(e, s) == DivT(MulT(DV(e.r, s), V(e.r, s)), AbsT(V(e.r, s)))

V(e, s) ==
    CASE e.op = "Dual2" -> Dual2V(e, s)
      [] e.op = "Add" -> AddV(e, s)
      [] e.op = "Subtract" -> SubtractV(e, s)
      [] e.op = "Multiply" -> MultiplyV(e, s)
      [] e.op = "Divide" -> DivideV(e, s)
      [] e.op = "Sine" -> SineV(e, s)
      [] e.op = "Cosine" -> CosineV(e, s)
      [] e.op = "Exponential" -> ExponentialV(e, s)
      [] e.op = "Logarithm" -> LogarithmV(e, s)
      [] e.op = "Power" -> PowerV(e, s)
      [] e.op = "Absolute" -> AbsoluteV(e, s)

DV(e, s) ==
    CASE e.op = "Dual2" -> Dual2Dv(e, s)
      [] e.op = "Add" -> AddDv(e, s)
      [] e.op = "Subtract" -> SubtractDv(e, s)
      [] e.op = "Multiply" -> MultiplyDv(e, s)
      [] e.op = "Divide" -> DivideDv(e, s)
      [] e.op = "Sine" -> SineDv(e, s)
      [] e.op = "Cosine" -> CosineDv(e, s)
      [] e.op = "Exponential" -> ExponentialDv(e, s)
      [] e.op = "Logarithm" -> LogarithmDv(e, s)
      [] e.op = "Power" -> PowerDv(e, s)
      [] e.op = "Absolute" -> AbsoluteDv(e, s)

\* Number of operator nodes of an expression.
RECURSIVE Size(_)
Size(e) ==
    IF e.op \in {"None", "Dual2"} THEN 0
    ELSE IF e.op \in BinaryOps THEN 1 + Size(e.l) + Size(e.r)
    ELSE 1 + Size(e.r)

\* The concrete operands an expression refers to.
RECURSIVE Refs(_)
Refs(e) ==
    IF e.op = "None" THEN {}
    ELSE IF e.op = "Dual2" THEN {e.name}
    ELSE IF e.op \in BinaryOps THEN Refs(e.l) \cup Refs(e.r)
    ELSE Refs(e.r)

\* The same expression written with the eager variant: every operator
\* application returns a new Dual at once.
RECURSIVE EagerEval(_, _)
EagerEval(e, s) ==
    CASE e.op = "Dual2" -> s[e.name]
      [] e.op = "Add" -> DualAdd(EagerEval(e.l, s), EagerEval(e.r, s))
      [] e.op = "Subtract" -> DualSub(EagerEval(e.l, s), EagerEval(e.r, s))
      [] e.op = "Multiply" -> DualMul(EagerEval(e.l, s), EagerEval(e.r, s))
      [] e.op = "Divide" -> DualDiv(EagerEval(e.l, s), EagerEval(e.r, s))
      [] e.op = "Sine" -> DualSin(EagerEval(e.r, s))
      [] e.op = "Cosine" -> DualCos(EagerEval(e.r, s))
      [] e.op = "Exponential" -> DualExp(EagerEval(e.r, s))
      [] e.op = "Logarithm" -> DualLog(EagerEval(e.r, s))
      [] e.op = "Power" -> DualPow(EagerEval(e.r, s), e.k)
      [] e.op = "Absolute" -> DualAbs(EagerEval(e.r, s))

\* What eval() hands back.  R is the type of the node's right operand and
\* eval() returns R(v(), dv()).  With R = Dual2 that is the materialized
\* dual number.  With R a node type the two scalars are converted to
\* temporaries Dual2(v()), Dual2(dv()) (or, for Power, Dual2(v()) and the
\* scalar dv() as exponent) that die when eval() returns: the result is a
\* node over dead operands.  Any other R does not compile.
EvalCompiles(e) ==
    /\ e.op \notin {"None", "Dual2"}
    /\ \/ e.r.op = "Dual2"
       \/ e.r.op \in BinaryOps /\ e.r.l.op = "Dual2" /\ e.r.r.op = "Dual2"
       \/ e.r.op = "Power" /\ e.r.r.op = "Dual2"
TempStore(v, d) == [n \in {"l", "r"} |-> IF n = "l" THEN MkDual(v, 0) ELSE MkDual(d, 0)]
ReboundNode(R, d) ==
    IF R.op = "Power" THEN PowerNode(Leaf("l"), d) ELSE Binary(R.op, Leaf("l"), Leaf("r"))
\* What a later read of a node over dead temporaries may see: the bytes
\* still intact, or anything else.
Garbage == {0, NonFinite}
DanglingReads(R, v, d) ==
    {MkDual(V(ReboundNode(R, d), TempStore(v, d)), DV(ReboundNode(R, d), TempStore(v, d)))}
        \cup {MkDual(g, g) : g \in Garbage}
EvalResults(e, s) ==
    IF e.r.op = "Dual2"
    THEN {[kind |-> "Dual2", value |-> V(e, s), derivative |-> DV(e, s)]}
    ELSE {[kind |-> e.r.op, value |-> g.value, derivative |-> g.derivative] :
            g \in DanglingReads(e.r, V(e, s), DV(e, s))}

\* ------------------------------------------------------------------- state
VARIABLES
    alive,  \* the client's variables that are constructed
    d1,     \* eager variant: variable -> Dual
    d2,     \* lazy variant: variable -> Dual2
    expr,   \* the expression node the client has built (None: none)
    last,   \* the operation performed last, with what it returned
    obs,    \* the answers v() and dv() of the node gave since its operands
            \* were last modified
    mat     \* the variable that holds a materialization of the node ("-":
            \* not materialized yet, "gone": the variable was written since)
vars == <<alive, d1, d2, expr, last, obs, mat>>

NoRet == [kind |-> "none", value |-> 0, derivative |-> 0]
NoObs == [vKnown |-> FALSE, v |-> 0, dvKnown |-> FALSE, dv |-> 0]
\* op: the operation; target: the variable it wrote; a1, a2, src: a
\* constructor's arguments; expr: the node it used; calls: the queries it
\* made of the node, with their answers; rv, rdv: the node's v(), dv();
\* ev, edv: the eager program's; again, prev: whether the same query was
\* answered before, and how; ret: what eval() returned.
MkLast(o, t) ==
    [op |-> o, target |-> t, a1 |-> 0, a2 |-> 0, src |-> "-", expr |-> None,
     calls |-> <<>>, rv |-> 0, rdv |-> 0, ev |-> 0, edv |-> 0,
     again |-> FALSE, prev |-> 0, ret |-> NoRet]
Call(q, r) == [query |-> q, result |-> r]

\* The values a client hands to constructors and setters.
SetVals == {0 - 2, 3}

BuildOps == BinaryOps \cup UnaryOps \cup {"Power"}
Writing == last.op \in BuildOps \cup {"Init"}

\* A modification of variable t as the node and its materialization see it.
Stale(t) == IF t \in Refs(expr) THEN NoObs ELSE obs
Unmat(t) == IF mat = t THEN "gone" ELSE mat

\* ------------------------------------------------ construction, destruction
\* `eager` tells whether the eager program runs the same client code
\* alongside the lazy one.
Construct(t, l, e1, e2, eager) ==
    /\ t \notin alive
    /\ alive' = alive \cup {t}
    /\ d1' = IF eager THEN [d1 EXCEPT ![t] = e1] ELSE d1
    /\ d2' = [d2 EXCEPT ![t] = e2]
    /\ last' = l
    /\ UNCHANGED <<expr, obs, mat>>

Ctor0(eager) ==
    \E t \in Vars : Construct(t, MkLast("Ctor0", t), DualCtor0, Dual2Ctor0, eager)
Ctor1(eager) ==
    \E t \in Vars, v \in SetVals :
        Construct(t, [MkLast("Ctor1", t) EXCEPT !.a1 = v],
                  DualCtor1(v), Dual2Ctor1(v), eager)
Ctor2(eager) ==
    \E t \in Vars, v \in SetVals, d \in SetVals :
        Construct(t, [MkLast("Ctor2", t) EXCEPT !.a1 = v, !.a2 = d],
                  DualCtor2(v, d), Dual2Ctor2(v, d), eager)
CopyCtor(eager) ==
    \E t \in Vars, o \in alive :
        Construct(t, [MkLast("Copy", t) EXCEPT !.src = o],
                  DualCopy(d1[o]), Dual2Copy(d2[o]), eager)

\* ~Dual(), ~Dual2(): the variable leaves scope; no node may still refer to it.
Destroy(eager) ==
    \E t \in alive :
        /\ t \notin Refs(expr)
        /\ alive' = alive \ {t}
        /\ d1' = IF eager THEN [d1 EXCEPT ![t] = DualCtor0] ELSE d1
        /\ d2' = [d2 EXCEPT ![t] = Dual2Ctor0]
        /\ last' = MkLast("Destroy", t)
        /\ mat' = Unmat(t)
        /\ UNCHANGED <<expr, obs>>

\* ------------------------------------------------------------------ setters
SetValue(eager) ==
    \E t \in alive, _value \in SetVals :
        /\ d1' = IF eager THEN [d1 EXCEPT ![t].value = _value] ELSE d1
        /\ d2' = [d2 EXCEPT ![t].value = _value]
        /\ last' = [MkLast("setValue", t) EXCEPT !.a1 = _value]
        /\ obs' = Stale(t)
        /\ mat' = Unmat(t)
        /\ UNCHANGED <<alive, expr>>

SetDerivative(eager) ==
    \E t \in alive, _derivative \in SetVals :
        /\ d1' = IF eager THEN [d1 EXCEPT ![t].derivative = _derivative] ELSE d1
        /\ d2' = [d2 EXCEPT ![t].derivative = _derivative]
        /\ last' = [MkLast("setDerivative", t) EXCEPT !.a2 = _derivative]
        /\ obs' = Stale(t)
        /\ mat' = Unmat(t)
        /\ UNCHANGED <<alive, expr>>

\* ---------------------------------------- operators and functions (dual2.h)
Concrete == {Leaf(a) : a \in alive}
\* Within one statement an operand may also be the node just built.
Operands == Concrete \cup (IF expr = None THEN {} ELSE {expr})

\* An operator that works in place, as a compound assignment would: the
\* left operand receives the result.
BuildInPlace(n) ==
    /\ Size(n) <= MaxOps
    /\ expr' = n
    /\ last' = MkLast(n.op, "-")
    /\ obs' = NoObs
    /\ mat' = "-"
    /\ d2' = IF n.op \in BinaryOps /\ n.l.op = "Dual2"
             THEN [d2 EXCEPT ![n.l.name].value = V(n, d2)] ELSE d2
    /\ UNCHANGED <<alive, d1>>
Build(n) ==
    /\ Size(n) <= MaxOps
    /\ expr' = n
    /\ last' = MkLast(n.op, "-")
    /\ obs' = NoObs
    /\ mat' = "-"
    /\ UNCHANGED <<alive, d1, d2>>

OperatorPlus(ops) == \E l \in ops, r \in ops : Build(Binary("Add", l, r))
OperatorMinus(ops) == \E l \in ops, r \in ops : Build(Binary("Subtract", l, r))
OperatorTimes(ops) == \E l \in ops, r \in ops : Build(Binary("Multiply", l, r))
OperatorDivide(ops) == \E l \in ops, r \in ops : Build(Binary("Divide", l, r))
sin(ops) == \E r \in ops : Build(Unary("Sine", r))
cos(ops) == \E r \in ops : Build(Unary("Cosine", r))
exp(ops) == \E r \in ops : Build(Unary("Exponential", r))
log(ops) == \E r \in ops : Build(Unary("Logarithm", r))
pow(ops) == \E r \in ops, k \in Exponents : Build(PowerNode(r, k))
abs(ops) == \E r \in ops : Build(Unary("Absolute", r))

\* ------------------------------------------------------------------ queries
\* The eager program's value of the same expression (0 when it does not run).
EagerV(eager) == IF eager THEN EagerEval(expr, d1).value ELSE 0
EagerDv(eager) == IF eager THEN EagerEval(expr, d1).derivative ELSE 0

\* `held` tells whether the client keeps the node in a variable of its own;
\* otherwise the node is a temporary that dies with the statement.
QueryV(held, eager) ==
    /\ expr # None
    /\ last' = [MkLast("v", "-") EXCEPT
                  !.expr = expr, !.calls = <<Call("v", V(expr, d2))>>,
                  !.rv = V(expr, d2),
                  !.ev = EagerV(eager),
                  !.again = obs.vKnown, !.prev = obs.v]
    /\ expr' = IF held THEN expr ELSE None
    /\ obs' = IF held THEN [obs EXCEPT !.vKnown = TRUE, !.v = V(expr, d2)] ELSE NoObs
    /\ UNCHANGED <<alive, d1, d2, mat>>

QueryDv(held, eager) ==
    /\ expr # None
    /\ last' = [MkLast("dv", "-") EXCEPT
                  !.expr = expr, !.calls = <<Call("dv", DV(expr, d2))>>,
                  !.rdv = DV(expr, d2),
                  !.edv = EagerDv(eager),
                  !.again = obs.dvKnown, !.prev = obs.dv]
    /\ expr' = IF held THEN expr ELSE None
    /\ obs' = IF held THEN [obs EXCEPT !.dvKnown = TRUE, !.dv = DV(expr, d2)] ELSE NoObs
    /\ UNCHANGED <<alive, d1, d2, mat>>

Eval(eager) ==
    /\ EvalCompiles(expr)
    /\ \E res \in EvalResults(expr, d2) :
        last' = [MkLast("eval", "-") EXCEPT
                   !.expr = expr,
                   !.calls = <<Call("v", V(expr, d2)), Call("dv", DV(expr, d2))>>,
                   !.rv = V(expr, d2), !.rdv = DV(expr, d2),
                   !.ev = EagerV(eager), !.edv = EagerDv(eager),
                   !.ret = res]
    /\ expr' = None
    /\ UNCHANGED <<alive, d1, d2, obs, mat>>

\* ------------------------------------------------ Dual2::operator=(expr)
\* The body of operator=, statement by statement: the member written and
\* the query of expr it is written from.
\* An operator= that fills both members from v().
AssignBodyValueTwice ==
    <<[field |-> "value", query |-> "v"], [field |-> "derivative", query |-> "v"]>>
AssignBody ==
    <<[field |-> "value", query |-> "v"], [field |-> "derivative", query |-> "dv"]>>
Ask(q, e, s) == IF q = "v" THEN V(e, s) ELSE DV(e, s)
Write(t, f, r, s) ==
    IF f = "value" THEN [s EXCEPT ![t].value = r] ELSE [s EXCEPT ![t].derivative = r]
\* Runs the statements in order; each query sees what the statements before
\* it wrote.  Gives the store reached and the queries made.
RECURSIVE Run(_, _, _, _)
Run(body, t, e, s) ==
    IF body = <<>> THEN [store |-> s, calls |-> <<>>]
    ELSE LET st == Head(body)
             r == Ask(st.query, e, s)
             rest == Run(Tail(body), t, e, Write(t, st.field, r, s))
         IN [store |-> rest.store, calls |-> <<Call(st.query, r)>> \o rest.calls]
Dual2Assign(t, e, s) == Run(AssignBody, t, e, s)
\* Dual's implicit copy assignment from the temporary the expression gave.
DualAssign(t, e, s) == [s EXCEPT ![t] = EagerEval(e, s)]

Assign(t, held, eager) ==
    /\ expr # None
    /\ t \in alive
    /\ d2' = Dual2Assign(t, expr, d2).store
    /\ d1' = IF eager THEN DualAssign(t, expr, d1) ELSE d1
    /\ last' = [MkLast("assign", t) EXCEPT
                  !.expr = expr, !.calls = Dual2Assign(t, expr, d2).calls,
                  !.rv = V(expr, d2), !.rdv = DV(expr, d2),
                  !.ev = EagerV(eager), !.edv = EagerDv(eager)]
    /\ expr' = IF held THEN expr ELSE None
    /\ obs' = IF held THEN Stale(t) ELSE NoObs
    /\ mat' = IF held THEN t ELSE "-"
    /\ UNCHANGED alive

\* f = e; with e a named node over concrete operands, materialized once.
AssignHeld == \E t \in Vars : mat = "-" /\ Assign(t, TRUE, FALSE)

\* f = <expression>; the temporaries die at the end of the statement.
AssignTemp == \E t \in Vars : Assign(t, FALSE, TRUE)

\* ----------------------------------------------------------- specifications
InputsX == {MkDual(3, 1), MkDual(0 - 2, 2)}
InputsY == {MkDual(0, 0), MkDual(2, 0 - 1)}
Declared ==
    /\ alive = Vars
    /\ d2 \in {[a \in Vars |-> IF a = "x" THEN i ELSE j] : i \in InputsX, j \in InputsY}
    /\ expr = None
    /\ last = MkLast("Init", "-")
    /\ obs = NoObs
    /\ mat = "-"

\* The life of one named node of the lazy variant: it is built over
\* concrete operands, queried, materialized, and queried again while the
\* client sets its operands.
Init == Declared /\ d1 = d2

Next ==
    \/ SetValue(FALSE) \/ SetDerivative(FALSE)
    \/ Writing /\ OperatorPlus(Concrete)
    \/ Writing /\ OperatorMinus(Concrete)
    \/ Writing /\ OperatorTimes(Concrete)
    \/ Writing /\ OperatorDivide(Concrete)
    \/ Writing /\ sin(Concrete)
    \/ Writing /\ cos(Concrete)
    \/ Writing /\ exp(Concrete)
    \/ Writing /\ log(Concrete)
    \/ Writing /\ pow(Concrete)
    \/ Writing /\ abs(Concrete)
    \/ QueryV(TRUE, FALSE) \/ QueryDv(TRUE, FALSE) \/ AssignHeld

Spec == Init /\ [][Next]_vars

\* Declarations and setters, run by both variants.
InitCtor ==
    /\ alive = {}
    /\ d1 = [a \in Vars |-> DualCtor0]
    /\ d2 = [a \in Vars |-> Dual2Ctor0]
    /\ expr = None
    /\ last = MkLast("Init", "-")
    /\ obs = NoObs
    /\ mat = "-"

NextCtor ==
    \/ Ctor0(TRUE) \/ Ctor1(TRUE) \/ Ctor2(TRUE) \/ CopyCtor(TRUE) \/ Destroy(TRUE)
    \/ SetValue(TRUE) \/ SetDerivative(TRUE)

SpecCtor == InitCtor /\ [][NextCtor]_vars

\* One statement run by both variants over the same operands: an expression
\* of up to MaxOps operators is written, then queried, evaluated or assigned.
InitExpr == Declared /\ d1 = d2

NextExpr ==
    \/ Writing /\ OperatorPlus(Operands)
    \/ Writing /\ OperatorMinus(Operands)
    \/ Writing /\ OperatorTimes(Operands)
    \/ Writing /\ OperatorDivide(Operands)
    \/ Writing /\ sin(Operands)
    \/ Writing /\ cos(Operands)
    \/ Writing /\ exp(Operands)
    \/ Writing /\ log(Operands)
    \/ Writing /\ pow(Operands)
    \/ Writing /\ abs(Operands)
    \/ QueryV(FALSE, TRUE) \/ QueryDv(FALSE, TRUE) \/ Eval(TRUE) \/ AssignTemp

SpecExpr == InitExpr /\ [][NextExpr]_vars

\* ------------------------------------------------------------------- claims
Times(l, r) == Binary("Multiply", l, r)
Over(l, r) == Binary("Divide", l, r)
Asked(q) == {i \in DOMAIN last.calls : last.calls[i].query = q}

\* C1: whatever the expression and its operands (derivatives other than 1
\* included), the lazy expression materialized by assignment into a
\* variable it does not read has the value and derivative the eager variant
\* computes for the same expression.
C1_LazyEqualsEager ==
    (last.op = "assign" /\ last.target \notin Refs(last.expr))
        => d2[last.target] = d1[last.target]

\* C2: a lazy Power node over an operand with value v and derivative dv and
\* exponent k has v() = v^k and dv() = k * v^(k-1) * dv.
C2_PowerRule ==
    (last.op \in {"v", "dv"} /\ last.expr.op = "Power") =>
        LET v == V(last.expr.r, d2)
            dv == DV(last.expr.r, d2)
            k == last.expr.k
        IN /\ last.op = "v" => last.rv = PowT(v, k)
           /\ last.op = "dv" => last.rdv = MulT(MulT(k, PowT(v, SubT(k, 1))), dv)

\* C3: eval() on a lazy node, whatever its operands are (concrete or nodes,
\* left or right), returns a concrete dual number whose value and derivative
\* are the node's v() and dv().
C3_EvalMaterializes ==
    last.op = "eval" =>
        /\ last.ret.kind = "Dual2"
        /\ last.ret.value = last.rv
        /\ last.ret.derivative = last.rdv

\* C4: assigning an expression to a Dual2 calls v() exactly once and dv()
\* exactly once on the expression, and the target then holds the two
\* answers those calls gave.
C4_AssignAsksOnce ==
    last.op = "assign" =>
        /\ Cardinality(Asked("v")) = 1
        /\ Cardinality(Asked("dv")) = 1
        /\ \A i \in Asked("v") : d2[last.target].value = last.calls[i].result
        /\ \A i \in Asked("dv") : d2[last.target].derivative = last.calls[i].result
C4_Witness ==
    /\ last.op = "assign"
    /\ last.expr = Times(Leaf("x"), Leaf("y"))
    /\ last.target = "y"
    /\ d2["y"].value # d2["y"].derivative

\* C5: in both variants the product a*b has value a.v*b.v and derivative
\* a.v*b.dv + a.dv*b.v; and for x seeded with derivative 1 the derivative of
\* x*x*x is 3*x.v^2, in the eager result and in the lazy expression once
\* materialized.
C5_ProductRule ==
    /\ (last.op \in {"v", "dv"} /\ last.expr.op = "Multiply") =>
          LET l == last.expr.l
              r == last.expr.r
              a2 == MkDual(V(l, d2), DV(l, d2))
              b2 == MkDual(V(r, d2), DV(r, d2))
              a1 == EagerEval(l, d1)
              b1 == EagerEval(r, d1)
          IN /\ last.op = "v" =>
                  /\ last.rv = MulT(a2.value, b2.value)
                  /\ last.ev = MulT(a1.value, b1.value)
             /\ last.op = "dv" =>
                  /\ last.rdv = AddT(MulT(a2.value, b2.derivative),
                                     MulT(a2.derivative, b2.value))
                  /\ last.edv = AddT(MulT(a1.value, b1.derivative),
                                     MulT(a1.derivative, b1.value))
    /\ \A a \in Vars :
          (/\ last.op = "assign"
           /\ last.expr = Times(Times(Leaf(a), Leaf(a)), Leaf(a))
           /\ last.target # a
           /\ d2[a].derivative = 1) =>
              /\ d2[last.target].derivative = MulT(3, MulT(d2[a].value, d2[a].value))
              /\ d1[last.target].derivative = MulT(3, MulT(d1[a].value, d1[a].value))
C5_Witness ==
    /\ last.op = "assign"
    /\ last.expr = Times(Times(Leaf("x"), Leaf("x")), Leaf("x"))
    /\ last.target = "y"
    /\ d2["x"] = MkDual(3, 1)
    /\ d2["y"] = MkDual(27, 27)
    /\ d1["y"] = MkDual(27, 27)

\* C6: in both variants, for a divisor of non-zero value, a/b has value
\* a.v/b.v and derivative (a.dv*b.v - a.v*b.dv)/(b.v*b.v), the divisions
\* being T's; computing them raises no error and changes no operand.
C6_QuotientRule ==
    [][(last'.op \in {"v", "dv"} /\ last'.expr.op = "Divide"
            /\ V(expr.r, d2) # 0 /\ Finite(V(expr.r, d2))) =>
          LET a2 == MkDual(V(expr.l, d2), DV(expr.l, d2))
              b2 == MkDual(V(expr.r, d2), DV(expr.r, d2))
              a1 == EagerEval(expr.l, d1)
              b1 == EagerEval(expr.r, d1)
              Num(a, b) == SubT(MulT(a.derivative, b.value), MulT(a.value, b.derivative))
              Den(b) == MulT(b.value, b.value)
          IN /\ last'.op = "v" =>
                  /\ last'.rv = DivT(a2.value, b2.value)
                  /\ last'.ev = DivT(a1.value, b1.value)
                  /\ Finite(a2.value) => Finite(last'.rv)
             /\ last'.op = "dv" =>
                  /\ last'.rdv = DivT(Num(a2, b2), Den(b2))
                  /\ last'.edv = DivT(Num(a1, b1), Den(b1))
                  /\ (Finite(Num(a2, b2)) /\ Finite(Den(b2))) => Finite(last'.rdv)
             /\ d1' = d1
             /\ d2' = d2]_vars
C6_Witness ==
    /\ last.op = "dv"
    /\ last.expr = Over(Leaf("x"), Leaf("y"))
    /\ d2["x"] = MkDual(3, 1)
    /\ d2["y"] = MkDual(2, 0 - 1)
    /\ last.rdv = 1
    /\ last.edv = 1

\* C7: for Dual and Dual2 alike, the constructor without arguments gives
\* (0, 0), the one given a value gives (value, 0), the one given both gives
\* (value, derivative), and a copy has the source's two members and leaves
\* the source as it was; a derivative becomes non-zero only where it is
\* supplied at construction, set by setDerivative, or assigned.
C7_SeedConvention ==
    [][LET t == last'.target
       IN /\ last'.op = "Ctor0" =>
               d1'[t] = MkDual(0, 0) /\ d2'[t] = MkDual(0, 0)
          /\ last'.op = "Ctor1" =>
               d1'[t] = MkDual(last'.a1, 0) /\ d2'[t] = MkDual(last'.a1, 0)
          /\ last'.op = "Ctor2" =>
               /\ d1'[t] = MkDual(last'.a1, last'.a2)
               /\ d2'[t] = MkDual(last'.a1, last'.a2)
          /\ last'.op = "Copy" =>
               /\ d1'[t] = d1[last'.src] /\ d1'[last'.src] = d1[last'.src]
               /\ d2'[t] = d2[last'.src] /\ d2'[last'.src] = d2[last'.src]
          /\ \A u \in Vars :
               (\/ d1'[u].derivative \notin {0, d1[u].derivative}
                \/ d2'[u].derivative \notin {0, d2[u].derivative}) =>
                   /\ u = t
                   /\ last'.op \in {"Ctor2", "Copy", "setDerivative", "assign"}]_vars
C7_Witness ==
    /\ last.op = "Copy"
    /\ last.target = "y"
    /\ last.src = "x"
    /\ d2["x"] = MkDual(3, 0 - 2)
    /\ d2["y"] = MkDual(3, 0 - 2)
    /\ d1["y"] = MkDual(3, 0 - 2)

\* C8: building a node and querying it change no operand, and a query of a
\* node whose operands were not modified since the same query was last made
\* gives the same answer again.
C8_QueriesArePure ==
    [][/\ last'.op \in BuildOps \cup {"v", "dv"} => (d1' = d1 /\ d2' = d2)
       /\ (last'.op = "v" /\ obs.vKnown) => last'.rv = obs.v
       /\ (last'.op = "dv" /\ obs.dvKnown) => last'.rdv = obs.dv]_vars
C8_Witness ==
    /\ last.op = "v"
    /\ last.again
    /\ obs.dvKnown
    /\ last.expr = Over(Leaf("y"), Leaf("x"))
    /\ last.rv = last.prev
    /\ last.rv # 0

\* The formulas of the operations on operand duals a and b (unary
\* operations: a) and exponent k.
Formula(o, a, b, k) ==
    CASE o = "Add" ->
           MkDual(AddT(a.value, b.value), AddT(a.derivative, b.derivative))
      [] o = "Subtract" ->
           MkDual(SubT(a.value, b.value), SubT(a.derivative, b.derivative))
      [] o = "Multiply" ->
           MkDual(MulT(a.value, b.value),
                  AddT(MulT(a.value, b.derivative), MulT(a.derivative, b.value)))
      [] o = "Divide" ->
           MkDual(DivT(a.value, b.value),
                  DivT(SubT(MulT(a.derivative, b.value), MulT(a.value, b.derivative)),
                       MulT(b.value, b.value)))
      [] o = "Sine" -> MkDual(SinT(a.value), MulT(a.derivative, CosT(a.value)))
      [] o = "Cosine" -> MkDual(CosT(a.value), MulT(NegT(a.derivative), SinT(a.value)))
      [] o = "Exponential" -> MkDual(ExpT(a.value), MulT(a.derivative, ExpT(a.value)))
      [] o = "Logarithm" -> MkDual(LogT(a.value), DivT(a.derivative, a.value))
      [] o = "Power" ->
           MkDual(PowT(a.value, k),
                  MulT(MulT(k, PowT(a.value, SubT(k, 1))), a.derivative))
      [] o = "Absolute" ->
           MkDual(AbsT(a.value), DivT(MulT(a.derivative, a.value), AbsT(a.value)))
OfOperands(e, s) ==
    IF e.op \in BinaryOps THEN Formula(e.op, s[e.l.name], s[e.r.name], 0)
    ELSE IF e.op = "Power" THEN Formula(e.op, s[e.r.name], s[e.r.name], e.k)
    ELSE Formula(e.op, s[e.r.name], s[e.r.name], 0)

\* C9: a node caches nothing: after any setValue and setDerivative on its
\* operands and any earlier queries, its next v() and dv() are the
\* operation's formulas on the operands' current value and derivative;
\* while a Dual2 materialized from the node keeps what it was assigned
\* until it is written itself.
C9_NothingCached ==
    [][/\ last'.op = "v" => last'.rv = OfOperands(expr, d2).value
       /\ last'.op = "dv" => last'.rdv = OfOperands(expr, d2).derivative
       /\ (mat \in Vars /\ mat' = mat) => d2'[mat] = d2[mat]]_vars

\* C10: an assignment whose target is read by the assigned expression
\* (x = x*x, x = x*y) gives the target the value and derivative of the
\* expression on the operands as they were before the assignment.
C10_AliasedAssign ==
    [][(last'.op = "assign" /\ last'.target \in Refs(expr)) =>
          /\ d2'[last'.target].value = V(expr, d2)
          /\ d2'[last'.target].derivative = DV(expr, d2)]_vars
====
